---------------------------- MODULE Spec2Model ----------------------------
(***************************************************************************)
(* Model of the package reconciliation and backend-dispatch engine of      *)
(* install/server.py (class PackageManager and the APIHandler operations   *)
(* that drive it).                                                         *)
(*                                                                         *)
(* Strings of the program are sequences of one-character strings, so that  *)
(* strip, split and startswith are computed as Python computes them.       *)
(* Paths are records [dir, leaf, sub]: dir is a sequence of directory      *)
(* names, leaf a program string appended to it (a repository name) and sub *)
(* a fixed relative file name below that.                                  *)
(***************************************************************************)
EXTENDS Integers, Sequences, FiniteSets, TLC

VARIABLES
    os_type,      \* PackageManager.os_type
    pkg_manager,  \* PackageManager.pkg_manager
    base_dir,     \* PackageManager.base_dir, a sequence of directory names
    cache,        \* PackageManager.cache: [has, packages], has = ('packages' in cache)
    cache_time,   \* PackageManager.cache_time
    on_path,      \* host: the commands that `which` finds
    conf,         \* host: the file desktop.conf, [exists, lines]
    fs,           \* host: the paths that exist
    now,          \* host: time.time(), in seconds
    last,         \* the most recent call and what it returned
    hist,         \* when /api/refresh was last served
    passes        \* the calls of get_all_packages_status under way, by caller

vars == <<os_type, pkg_manager, base_dir, cache, cache_time, on_path, conf, fs,
          now, last, hist, passes>>

engine == <<os_type, pkg_manager, base_dir>>

(***************************************************************************)
(* Python values                                                           *)
(***************************************************************************)
\* Python's None, as a value no program string equals (program strings are
\* sequences of single characters)
None == <<"None">>

WS == {" ", "\t"}

RECURSIVE LStrip(_)
LStrip(s) == IF s = <<>> THEN s
             ELSE IF Head(s) \in WS THEN LStrip(Tail(s)) ELSE s

RECURSIVE RStrip(_)
RStrip(s) == IF s = <<>> THEN s
             ELSE IF s[Len(s)] \in WS THEN RStrip(SubSeq(s, 1, Len(s) - 1)) ELSE s

Strip(s) == RStrip(LStrip(s))

StartsWith(s, p) == Len(s) >= Len(p) /\ SubSeq(s, 1, Len(p)) = p

\* index of the first occurrence of character c in s, 0 when absent
IndexOf(s, c) == IF \E i \in 1..Len(s) : s[i] = c
                 THEN CHOOSE i \in 1..Len(s) : s[i] = c /\ \A j \in 1..(i - 1) : s[j] # c
                 ELSE 0

\* s.split(c, 1)
SplitOnce(s, c) == LET i == IndexOf(s, c)
                   IN  IF i = 0 THEN <<s>>
                       ELSE <<SubSeq(s, 1, i - 1), SubSeq(s, i + 1, Len(s))>>

\* s.split(c)
RECURSIVE SplitAll(_, _)
SplitAll(s, c) == LET i == IndexOf(s, c)
                  IN  IF i = 0 THEN <<s>>
                      ELSE <<SubSeq(s, 1, i - 1)>> \o SplitAll(SubSeq(s, i + 1, Len(s)), c)

\* s.split(): the maximal runs of non-whitespace characters
RECURSIVE SplitWS(_)
SplitWS(s) == LET t == LStrip(s)
                  k == IF \E i \in 1..Len(t) : t[i] \in WS
                       THEN CHOOSE i \in 1..Len(t) :
                                t[i] \in WS /\ \A j \in 1..(i - 1) : t[j] \notin WS
                       ELSE 0
              IN  IF t = <<>> THEN <<>>
                  ELSE IF k = 0 THEN <<t>>
                  ELSE <<SubSeq(t, 1, k - 1)>> \o SplitWS(SubSeq(t, k, Len(t)))

(***************************************************************************)
(* Catalog Parser: PackageManager.read_packages                            *)
(***************************************************************************)
\* every entry counted as enabled
ReadLineEnabledAlways(acc, raw) ==
    LET line == Strip(raw)
        is_commented == StartsWith(line, <<"#">>)
        rest == IF is_commented THEN Strip(Tail(line)) ELSE line
        parts == SplitOnce(rest, "#")
        package_name == Strip(parts[1])
        description == IF Len(parts) > 1 THEN Strip(parts[2]) ELSE <<>>
    IN  IF line = <<>> THEN acc
        ELSE IF StartsWith(line, <<"#", "#">>) THEN acc
        ELSE IF package_name # <<>>
             THEN [packages |-> Append(acc.packages, package_name),
                   all_packages |-> Append(acc.all_packages,
                       [name |-> package_name, enabled |-> ~is_commented,
                        description |-> description])]
             ELSE acc

\* the body of the loop over the lines of desktop.conf (lines 87-113); acc
\* holds the two lists built so far
\* the loop body without the test of line 106: a line without a name yields
\* an entry as well
ReadLineKeepingEmptyNames(acc, raw) ==
    LET line == Strip(raw)
        is_commented == StartsWith(line, <<"#">>)
        rest == IF is_commented THEN Strip(Tail(line)) ELSE line
        parts == SplitOnce(rest, "#")
        package_name == Strip(parts[1])
        description == IF Len(parts) > 1 THEN Strip(parts[2]) ELSE <<>>
    IN  IF line = <<>> THEN acc
        ELSE IF StartsWith(line, <<"#", "#">>) THEN acc
        ELSE [packages |-> IF ~is_commented
                           THEN Append(acc.packages, package_name)
                           ELSE acc.packages,
              all_packages |-> Append(acc.all_packages,
                  [name |-> package_name, enabled |-> ~is_commented,
                   description |-> description])]

\* lines 87-113: the body of the loop over the lines of the file
ReadLine(acc, raw) ==
    LET line == Strip(raw)
        is_commented == StartsWith(line, <<"#">>)
        rest == IF is_commented THEN Strip(Tail(line)) ELSE line
        parts == SplitOnce(rest, "#")
        package_name == Strip(parts[1])
        description == IF Len(parts) > 1 THEN Strip(parts[2]) ELSE <<>>
    IN  IF line = <<>> THEN acc
        ELSE IF StartsWith(line, <<"#", "#">>) THEN acc
        ELSE IF package_name # <<>>
             THEN [packages |-> IF ~is_commented
                                THEN Append(acc.packages, package_name)
                                ELSE acc.packages,
                   all_packages |-> Append(acc.all_packages,
                       [name |-> package_name, enabled |-> ~is_commented,
                        description |-> description])]
             ELSE acc

RECURSIVE ReadLines(_, _)
ReadLines(acc, lines) == IF lines = <<>> THEN acc
                         ELSE ReadLines(ReadLine(acc, Head(lines)), Tail(lines))

\* file is desktop.conf: [exists, lines]; a missing file (FileNotFoundError)
\* yields two empty lists
read_packages(file) ==
    IF ~file.exists THEN [packages |-> <<>>, all_packages |-> <<>>]
    ELSE ReadLines([packages |-> <<>>, all_packages |-> <<>>], file.lines)

(***************************************************************************)
(* Paths                                                                   *)
(***************************************************************************)
\* Path.resolve() of an absolute path without symbolic links: "." is
\* dropped and ".." removes the segment before it (the root is its own parent)
RECURSIVE ResolveFrom(_, _)
ResolveFrom(done, todo) ==
    IF todo = <<>> THEN done
    ELSE IF Head(todo) = "." THEN ResolveFrom(done, Tail(todo))
    ELSE IF Head(todo) = ".."
         THEN ResolveFrom(IF done = <<>> THEN done
                          ELSE SubSeq(done, 1, Len(done) - 1), Tail(todo))
    ELSE ResolveFrom(Append(done, Head(todo)), Tail(todo))

Resolve(dir) == ResolveFrom(<<>>, dir)

\* Path.name and Path.parent
PathName(dir) == IF dir = <<>> THEN "" ELSE dir[Len(dir)]

PathParent(dir) == IF dir = <<>> THEN dir ELSE SubSeq(dir, 1, Len(dir) - 1)

\* dir / leaf
Join(dir, leaf) == [dir |-> dir, leaf |-> leaf, sub |-> ""]

\* Path.home() / "Applications" / "GitHub"
AppsDir == <<"~", "Applications", "GitHub">>

Exists(p) == p \in fs

(***************************************************************************)
(* Installed Index: PackageManager.get_all_installed_packages              *)
(***************************************************************************)
EmptyDict == [x \in {} |-> None]

Put(d, k, v) == [x \in (DOMAIN d) \cup {k} |-> IF x = k THEN v ELSE d[x]]

Drop(s, n) == SubSeq(s, n + 1, Len(s))

\* brew and winget: the first two whitespace-separated columns of each line
RECURSIVE ParseColumns(_, _)
ParseColumns(d, lines) ==
    IF lines = <<>> THEN d
    ELSE LET parts == SplitWS(Head(lines))
         IN  ParseColumns(IF Len(parts) >= 2 THEN Put(d, parts[1], parts[2]) ELSE d,
                          Tail(lines))

\* apt, dnf and yum: name TAB version
RECURSIVE ParseTabs(_, _)
ParseTabs(d, lines) ==
    IF lines = <<>> THEN d
    ELSE LET kv == SplitOnce(Head(lines), "\t")
         IN  ParseTabs(IF Len(kv) = 2 THEN Put(d, kv[1], kv[2]) ELSE d, Tail(lines))

\* flatpak: name TAB version, both stripped
RECURSIVE ParseTabsStripped(_, _)
ParseTabsStripped(d, lines) ==
    IF lines = <<>> THEN d
    ELSE LET kv == SplitOnce(Head(lines), "\t")
         IN  ParseTabsStripped(IF Len(kv) = 2 THEN Put(d, Strip(kv[1]), Strip(kv[2])) ELSE d,
                               Tail(lines))

\* the index built from whatever the commands printed, a failure of the
\* command notwithstanding
get_all_installed_packages_ignoring_failure(pm, q) ==
    IF pm = "brew"
    THEN ParseColumns(ParseColumns(EmptyDict, q.out1), q.out2)
    ELSE IF pm = "apt" \/ pm \in {"dnf", "yum"}
    THEN ParseTabs(EmptyDict, q.out1)
    ELSE IF pm = "flatpak"
    THEN ParseTabsStripped(EmptyDict, Drop(q.out1, 1))
    ELSE IF pm = "winget"
    THEN ParseColumns(EmptyDict, Drop(q.out1, 2))
    ELSE EmptyDict

\* q is what the host answers to the bulk listing: out1 and out2 are the
\* lines printed by the first and the second listing command, fail = k says
\* that the k-th subprocess.run raises (timeout or execution error), 0 none
get_all_installed_packages(pm, q) ==
    IF pm = "brew"
    THEN IF q.fail = 1 THEN EmptyDict
         ELSE LET casks == ParseColumns(EmptyDict, q.out1)
              IN  IF q.fail = 2 THEN casks ELSE ParseColumns(casks, q.out2)
    ELSE IF pm = "apt" \/ pm \in {"dnf", "yum"}
    THEN IF q.fail = 1 THEN EmptyDict ELSE ParseTabs(EmptyDict, q.out1)
    ELSE IF pm = "flatpak"
    THEN IF q.fail = 1 THEN EmptyDict ELSE ParseTabsStripped(EmptyDict, Drop(q.out1, 1))
    ELSE IF pm = "winget"
    THEN IF q.fail = 1 THEN EmptyDict ELSE ParseColumns(EmptyDict, Drop(q.out1, 2))
    ELSE EmptyDict

(***************************************************************************)
(* Reconciliation Engine: PackageManager.get_all_packages_status           *)
(***************************************************************************)
cache_ttl == 300

\* 'github:'
GithubPrefix == <<"g", "i", "t", "h", "u", "b", ":">>

Git == <<"g", "i", "t">>

\* lines 318-337: the directory probe of a GitHub entry
GithubIsInstalled(repo_name) ==
    LET base_path == Resolve(base_dir)
        in_webroot ==
            IF PathName(base_path) = "install" /\ PathName(PathParent(base_path)) = "desktop"
            THEN Exists(Join(PathParent(PathParent(base_path)), repo_name))
            ELSE IF PathName(base_path) = "install"
            THEN Exists(Join(PathParent(base_path), repo_name))
            ELSE FALSE
    IN  IF in_webroot THEN TRUE ELSE Exists(Join(AppsDir, repo_name))

\* lines 339-347
GithubStatus(pkg_info) ==
    LET parts == SplitAll(Drop(pkg_info.name, 7), "/")
        is_installed == GithubIsInstalled(parts[2])
    IN  [name |-> pkg_info.name, description |-> pkg_info.description,
         installed |-> is_installed,
         version |-> IF is_installed THEN Git ELSE None,
         update_available |-> FALSE, new_version |-> None,
         enabled |-> pkg_info.enabled]

\* the probe of the legacy single-package path (get_package_status) kept in
\* the batched path: an installed package is reported as updatable
BackendStatusProbing(pkg_info, installed_packages) ==
    LET is_installed == pkg_info.name \in DOMAIN installed_packages
    IN  [name |-> pkg_info.name, description |-> pkg_info.description,
         installed |-> is_installed,
         version |-> IF is_installed THEN installed_packages[pkg_info.name] ELSE None,
         update_available |-> is_installed,
         new_version |-> IF is_installed THEN <<"a">> ELSE None,
         enabled |-> pkg_info.enabled]

\* the version taken as `version or None`: an empty version string is
\* reported as no version
BackendStatusVersionOrNone(pkg_info, installed_packages) ==
    LET is_installed == pkg_info.name \in DOMAIN installed_packages
    IN  [name |-> pkg_info.name, description |-> pkg_info.description,
         installed |-> is_installed,
         version |-> IF is_installed /\ installed_packages[pkg_info.name] # <<>>
                     THEN installed_packages[pkg_info.name] ELSE None,
         update_available |-> FALSE, new_version |-> None,
         enabled |-> pkg_info.enabled]

\* lines 351-362
BackendStatus(pkg_info, installed_packages) ==
    LET is_installed == pkg_info.name \in DOMAIN installed_packages
    IN  [name |-> pkg_info.name, description |-> pkg_info.description,
         installed |-> is_installed,
         version |-> IF is_installed THEN installed_packages[pkg_info.name] ELSE None,
         update_available |-> FALSE, new_version |-> None,
         enabled |-> pkg_info.enabled]

\* the loop with its `continue` one level out: a github: name that does not
\* split into owner/repo gets no status
RECURSIVE StatusLoopSkipping(_, _, _)
StatusLoopSkipping(packages_status, all_packages, installed_packages) ==
    IF all_packages = <<>> THEN packages_status
    ELSE LET pkg_info == Head(all_packages)
             prefixed == StartsWith(pkg_info.name, GithubPrefix)
             github == prefixed /\ Len(SplitAll(Drop(pkg_info.name, 7), "/")) = 2
             status == IF github THEN GithubStatus(pkg_info)
                       ELSE BackendStatus(pkg_info, installed_packages)
         IN  StatusLoopSkipping(IF prefixed /\ ~github THEN packages_status
                                ELSE Append(packages_status, status),
                                Tail(all_packages), installed_packages)

\* the loop of lines 308-363 over all_packages
RECURSIVE StatusLoop(_, _, _)
StatusLoop(packages_status, all_packages, installed_packages) ==
    IF all_packages = <<>> THEN packages_status
    ELSE LET pkg_info == Head(all_packages)
             github == StartsWith(pkg_info.name, GithubPrefix)
                       /\ Len(SplitAll(Drop(pkg_info.name, 7), "/")) = 2
             status == IF github THEN GithubStatus(pkg_info)
                       ELSE BackendStatus(pkg_info, installed_packages)
         IN  StatusLoop(Append(packages_status, status), Tail(all_packages),
                        installed_packages)

\* the time-to-live of an earlier version (30 seconds) in place of cache_ttl
CacheHitOldTTL(force_refresh, current_time) ==
    /\ ~force_refresh
    /\ (current_time - cache_time) < 30
    /\ cache.has

\* lines 294-296: the cached list is served
CacheHit(force_refresh, current_time) ==
    /\ ~force_refresh
    /\ (current_time - cache_time) < cache_ttl
    /\ cache.has

\* lines 301-363: one reconciliation pass
Reconcile(q) ==
    StatusLoop(<<>>, read_packages(conf).all_packages,
               get_all_installed_packages(pkg_manager, q))

(***************************************************************************)
(* Platform Detector and construction: PackageManager.__init__             *)
(***************************************************************************)
command_exists(command) == command \in on_path

detect_package_manager(os, found) ==
    IF os = "macos" /\ "brew" \in found THEN "brew"
    ELSE IF os = "linux" /\ "apt-get" \in found THEN "apt"
    ELSE IF os = "linux" /\ "dnf" \in found THEN "dnf"
    ELSE IF os = "linux" /\ "yum" \in found THEN "yum"
    ELSE IF os = "linux" /\ "flatpak" \in found THEN "flatpak"
    ELSE IF os = "windows" /\ "winget" \in found THEN "winget"
    ELSE "none"

Idle == [op |-> "idle"]

\* the threads that may call the engine
Callers == {1, 2}

\* a caller that is not inside get_all_packages_status
Outside == [pc |-> "outside", id |-> 0, current_time |-> 0, packages_status |-> <<>>]

\* no pass under way; the list and the timestamp of the cache are the
\* constructor's (pass 0)
NoPasses == [begun |-> 0, of |-> [c \in Callers |-> Outside], list_by |-> 0, time_by |-> 0]

NoHist == [prev_at |-> -1, prev_reconciled |-> FALSE, recon_at |-> -1]

\* the engine as constructed on a host of family os with the commands found
\* on its PATH, started from directory dir
Construct(os, found, dir) ==
    /\ os_type = os
    /\ on_path = found
    /\ pkg_manager = detect_package_manager(os, found)
    /\ base_dir = dir
    /\ cache = [has |-> FALSE, packages |-> <<>>]
    /\ cache_time = 0
    /\ last = Idle
    /\ hist = NoHist
    /\ passes = NoPasses

(***************************************************************************)
(* Bounds of the model                                                     *)
(***************************************************************************)
\* time.time() when the engine is constructed
StartTime == 1000

\* the clock is followed for this many seconds
MaxElapsed == 310

ClockOK(t) == t <= StartTime + MaxElapsed

(***************************************************************************)
(* GetStatus and GetStatusCheap                                            *)
(***************************************************************************)
\* line 939
refresh_age == 10

\* /api/refresh calls older than refresh_age are forgotten: hist only serves
\* to relate two calls that close together
Recent(t, clock) == IF t # -1 /\ clock - t < refresh_age THEN t ELSE -1

Forget(h, clock) == [prev_at |-> Recent(h.prev_at, clock),
                     prev_reconciled |-> h.prev_reconciled /\ Recent(h.prev_at, clock) # -1,
                     recon_at |-> Recent(h.recon_at, clock)]

\* a pass that stores the list but not the time
get_all_packages_status_no_stamp(force_refresh, q, d) ==
    LET hit == CacheHit(force_refresh, now)
    IN  /\ hit => d = 0
        /\ ClockOK(now + d)
        /\ cache' = IF hit THEN cache ELSE [has |-> TRUE, packages |-> Reconcile(q)]
        /\ cache_time' = cache_time
        /\ now' = now + d

\* get_all_packages_status(force_refresh) called at time now; a pass lasts d
\* seconds and q is the host's answer to the bulk listing
get_all_packages_status(force_refresh, q, d) ==
    LET hit == CacheHit(force_refresh, now)
    IN  /\ hit => d = 0
        /\ ClockOK(now + d)
        /\ cache' = IF hit THEN cache ELSE [has |-> TRUE, packages |-> Reconcile(q)]
        /\ cache_time' = IF hit THEN cache_time ELSE now
        /\ now' = now + d

\* GetStatus(forceRefresh): /api/packages is GetStatus(FALSE); failed keeps
\* the listing of a pass one of whose invocations raised
GetStatus(force_refresh, q, d) ==
    /\ get_all_packages_status(force_refresh, q, d)
    /\ last' = [op |-> "get_status", force |-> force_refresh, at |-> now,
                ret |-> cache'.packages,
                reconciled |-> ~CacheHit(force_refresh, now),
                failed |-> IF CacheHit(force_refresh, now) \/ q.fail = 0
                           THEN [out1 |-> <<>>, out2 |-> <<>>, fail |-> 0] ELSE q,
                cache_before |-> cache, cache_time_before |-> cache_time]
    /\ hist' = Forget(hist, now')
    /\ UNCHANGED <<engine, passes, on_path, conf, fs>>

\* GetStatusCheap(): APIHandler.handle_refresh
HandleRefresh(q, d) ==
    LET cache_age == now - cache_time
        fresh == cache_age < refresh_age
    IN  /\ get_all_packages_status(~fresh, q, d)
        /\ last' = [op |-> "refresh", at |-> now,
                    packages |-> cache'.packages,
                    cached |-> fresh, cache_age |-> cache_age,
                    reconciled |-> ~CacheHit(~fresh, now),
                    prev_at |-> hist.prev_at,
                    prev_reconciled |-> hist.prev_reconciled,
                    recon_at |-> hist.recon_at]
        /\ hist' = Forget([prev_at |-> now,
                           prev_reconciled |-> ~CacheHit(~fresh, now),
                           recon_at |-> IF CacheHit(~fresh, now) THEN hist.recon_at ELSE now],
                          now')
        /\ UNCHANGED <<engine, passes, on_path, conf, fs>>

(***************************************************************************)
(* get_all_packages_status statement by statement, for callers that run    *)
(* it at the same time                                                     *)
(***************************************************************************)
\* passes begun in one behaviour
MaxPasses == 3

\* lines 292-363: the clock is read, the cache is tested and, unless it is
\* served, the list is built in the local packages_status
PassBegin(c, force_refresh, q) ==
    /\ passes.of[c].pc = "outside"
    /\ passes.begun < MaxPasses
    /\ ~CacheHit(force_refresh, now)
    /\ passes' = [passes EXCEPT
                    !.begun = @ + 1,
                    !.of[c] = [pc |-> "line 365", id |-> passes.begun + 1,
                               current_time |-> now,
                               packages_status |-> Reconcile(q)]]
    /\ last' = Idle
    /\ UNCHANGED <<engine, cache, cache_time, on_path, conf, fs, now, hist>>

\* lines 294-296: the cached list is returned
PassServed(c, force_refresh) ==
    /\ passes.of[c].pc = "outside"
    /\ CacheHit(force_refresh, now)
    /\ last' = [op |-> "served", caller |-> c, ret |-> cache.packages,
                list_by |-> passes.list_by, time_by |-> passes.time_by]
    /\ UNCHANGED <<engine, passes, cache, cache_time, on_path, conf, fs, now, hist>>

\* line 365: self.cache['packages'] = packages_status
PassStoreList(c) ==
    /\ passes.of[c].pc = "line 365"
    /\ cache' = [has |-> TRUE, packages |-> passes.of[c].packages_status]
    /\ passes' = [passes EXCEPT !.list_by = passes.of[c].id,
                                !.of[c].pc = "line 366"]
    /\ last' = Idle
    /\ UNCHANGED <<engine, cache_time, on_path, conf, fs, now, hist>>

\* line 366: self.cache_time = current_time, and the return
PassStoreTime(c) ==
    /\ passes.of[c].pc = "line 366"
    /\ cache_time' = passes.of[c].current_time
    /\ passes' = [passes EXCEPT !.time_by = passes.of[c].id,
                                !.of[c] = Outside]
    /\ last' = Idle
    /\ UNCHANGED <<engine, cache, on_path, conf, fs, now, hist>>

(***************************************************************************)
(* The host                                                                *)
(***************************************************************************)
Tick(d) ==
    /\ d > 0
    /\ ClockOK(now + d)
    /\ now' = now + d
    /\ last' = Idle
    /\ hist' = Forget(hist, now')
    /\ UNCHANGED <<engine, passes, cache, cache_time, on_path, conf, fs>>

\* desktop.conf is edited
EditConf(file) ==
    /\ file # conf
    /\ conf' = file
    /\ last' = Idle
    /\ UNCHANGED <<engine, passes, cache, cache_time, on_path, fs, now, hist>>

\* something other than the engine creates or removes a path
TouchPath(p) ==
    /\ fs' = IF p \in fs THEN fs \ {p} ELSE fs \cup {p}
    /\ last' = Idle
    /\ UNCHANGED <<engine, passes, cache, cache_time, on_path, conf, now, hist>>

(***************************************************************************)
(* External commands and what an operation hands back                      *)
(***************************************************************************)
NoPath == [dir |-> <<>>, leaf |-> <<>>, sub |-> "none"]

\* one subprocess.run: the fixed arguments, the package or repository named
\* on the command line, the directory or file the command acts on, and its
\* exit code
Cmd(argv, pkg, at, rc) == [argv |-> argv, pkg |-> pkg, at |-> at, rc |-> rc]

\* the outcome of an operation: the value returned (tuple says whether it
\* is a (success, error_message) pair or a bare bool), the commands run, the
\* paths that exist afterwards and the directory the operation resolved
Outcome(success, error, tuple, cmds, paths, dir) ==
    [success |-> success, error |-> error, tuple |-> tuple, cmds |-> cmds,
     fs |-> paths, dir |-> dir]

\* x is what the host answers to the commands of one operation: rc1 and rc2
\* are the exit codes of the first and second package-manager command,
\* git_rc the exit code of git clone/pull, partial whether a failed clone
\* leaves the directory behind, has_script whether the checked-out tree holds
\* the bootstrap scripts and script_rc the exit code of the script
Answer(rc1, rc2, git_rc, partial, has_script, script_rc) ==
    [rc1 |-> rc1, rc2 |-> rc2, git_rc |-> git_rc, partial |-> partial,
     has_script |-> has_script, script_rc |-> script_rc]

(***************************************************************************)
(* GitHub Installer: PackageManager.install_from_github                    *)
(***************************************************************************)
SwarmUI == <<"S", "w", "a", "r", "m", "U", "I">>

HomeApps == Join(<<"~", "Applications">>, <<>>)

AppsDirPath == Join(AppsDir, <<>>)

Below(dir, name) == [dir |-> dir.dir, leaf |-> dir.leaf, sub |-> name]

ScriptNames == {"launchtools/install-mac.sh", "launchtools/install-linux.sh",
                "launchtools/install-windows.bat"}

Scripts(dir) == {Below(dir, n) : n \in ScriptNames}

LowerChar(c) == IF c = "S" THEN "s" ELSE IF c = "U" THEN "u" ELSE IF c = "I" THEN "i" ELSE c

\* str.lower on the letters the model uses
Lower(s) == [i \in 1..Len(s) |-> LowerChar(s[i])]

\* Path.home() / "Applications" / f"launch-{name}.sh"
LaunchScript(name) == [dir |-> <<"~", "Applications">>, leaf |-> name, sub |-> "launch-.sh"]

\* command_exists runs `where` on windows and `which` elsewhere
WhichCmd(command) ==
    Cmd(<<IF os_type = "windows" THEN "where" ELSE "which", command>>, <<>>, NoPath,
        IF command_exists(command) THEN 0 ELSE 1)

\* the resolution of uninstall_package (lines 705-721) in place of the
\* installer's: the webroot is used only when the repository is there
InstallDirIfPresent(repo_name) ==
    LET base_path == Resolve(base_dir)
        webroot_dir ==
            IF PathName(base_path) = "install" /\ PathName(PathParent(base_path)) = "desktop"
            THEN Join(PathParent(PathParent(base_path)), repo_name)
            ELSE IF PathName(base_path) = "install"
            THEN Join(PathParent(base_path), repo_name)
            ELSE NoPath
    IN  IF webroot_dir # NoPath /\ Exists(webroot_dir)
        THEN [dir |-> webroot_dir, mkdir |-> FALSE]
        ELSE [dir |-> Join(AppsDir, repo_name), mkdir |-> TRUE]

\* lines 516-535: the directory a repository is installed to, and whether
\* ~/Applications/GitHub is created on the way
InstallDir(repo_name) ==
    LET base_path == Resolve(base_dir)
    IN  IF PathName(base_path) = "install" /\ PathName(PathParent(base_path)) = "desktop"
        THEN [dir |-> Join(PathParent(PathParent(base_path)), repo_name), mkdir |-> FALSE]
        ELSE IF PathName(base_path) = "install"
        THEN [dir |-> Join(PathParent(base_path), repo_name), mkdir |-> FALSE]
        ELSE [dir |-> Join(AppsDir, repo_name), mkdir |-> TRUE]

\* the bootstrap script of SwarmUI for this OS family, "" when there is none
BootstrapScript ==
    IF os_type = "macos" THEN "launchtools/install-mac.sh"
    ELSE IF os_type = "linux" THEN "launchtools/install-linux.sh"
    ELSE IF os_type = "windows" THEN "launchtools/install-windows.bat"
    ELSE ""

\* lines 564-658, entered after a clone or pull that exited zero; paths are
\* the paths that exist by then and cmds the commands run so far
Bootstrap(repo_name, dir, paths, cmds, x) ==
    LET script == Below(dir, BootstrapScript)
        chmod == Cmd(<<"chmod", "+x">>, <<>>, script, 0)
        run == Cmd(<<BootstrapScript>>, <<>>, dir, x.script_rc)
        ran == IF os_type = "windows" THEN cmds \o <<run>> ELSE cmds \o <<chmod, run>>
        launcher == LaunchScript(Lower(SwarmUI))
    IN  IF repo_name # SwarmUI \/ BootstrapScript = ""
        THEN Outcome(TRUE, "None", TRUE, cmds, paths, dir)
        ELSE IF script \notin paths
        THEN Outcome(FALSE, "Install script not found", TRUE, cmds, paths, dir)
        ELSE IF x.script_rc # 0
        THEN Outcome(FALSE, "SwarmUI install script failed", TRUE, ran, paths, dir)
        ELSE IF os_type # "macos"
        THEN Outcome(TRUE, "None", TRUE, ran, paths, dir)
        \* write_text raises when ~/Applications is missing (line 598)
        ELSE IF HomeApps \notin paths
        THEN Outcome(FALSE, "Unexpected error", TRUE, ran, paths, dir)
        ELSE Outcome(TRUE, "None", TRUE,
                     ran \o <<Cmd(<<"chmod", "+x">>, <<>>, launcher, 0)>>,
                     paths \cup {launcher}, dir)

\* the tree as git leaves it after a clone or pull that exited zero
CheckedOut(dir, paths, x) ==
    ((paths \cup {dir}) \ Scripts(dir)) \cup (IF x.has_script THEN Scripts(dir) ELSE {})

\* the installer without update-in-place: it clones whether or not the
\* directory is there
install_from_github_clone_only(repo, x) ==
    LET parts == SplitAll(repo, "/")
        repo_name == parts[2]
        which == <<WhichCmd("git")>>
        target == InstallDir(repo_name)
        dir == target.dir
        made == IF target.mkdir THEN fs \cup {HomeApps, AppsDirPath} ELSE fs
        clone == Cmd(<<"git", "clone">>, repo, dir, x.git_rc)
    IN  IF Len(parts) # 2
        THEN Outcome(FALSE, "Invalid GitHub repo format", TRUE, <<>>, fs, NoPath)
        ELSE IF ~command_exists("git")
        THEN Outcome(FALSE, "Git is not installed", TRUE, which, fs, NoPath)
        ELSE IF x.git_rc # 0
             THEN Outcome(FALSE, "Git clone failed", TRUE, which \o <<clone>>,
                          IF x.partial THEN made \cup {dir} ELSE made, dir)
             ELSE Bootstrap(repo_name, dir, CheckedOut(dir, made, x), which \o <<clone>>, x)

\* the installer with the directory resolution, and so the creation of
\* ~/Applications/GitHub, ahead of the test for git
install_from_github_resolve_first(repo, x) ==
    LET parts == SplitAll(repo, "/")
        repo_name == parts[2]
        which == <<WhichCmd("git")>>
        target == InstallDir(repo_name)
        dir == target.dir
        made == IF target.mkdir THEN fs \cup {HomeApps, AppsDirPath} ELSE fs
        pull == Cmd(<<"git", "pull">>, <<>>, dir, x.git_rc)
        clone == Cmd(<<"git", "clone">>, repo, dir, x.git_rc)
    IN  IF Len(parts) # 2
        THEN Outcome(FALSE, "Invalid GitHub repo format", TRUE, <<>>, fs, NoPath)
        ELSE IF ~command_exists("git")
        THEN Outcome(FALSE, "Git is not installed", TRUE, which, made, NoPath)
        ELSE IF dir \in made
        THEN IF x.git_rc # 0
             THEN Outcome(FALSE, "Git pull failed", TRUE, which \o <<pull>>, made, dir)
             ELSE Bootstrap(repo_name, dir, CheckedOut(dir, made, x), which \o <<pull>>, x)
        ELSE IF x.git_rc # 0
             THEN Outcome(FALSE, "Git clone failed", TRUE, which \o <<clone>>,
                          IF x.partial THEN made \cup {dir} ELSE made, dir)
             ELSE Bootstrap(repo_name, dir, CheckedOut(dir, made, x), which \o <<clone>>, x)

\* lines 496-667
install_from_github(repo, x) ==
    LET parts == SplitAll(repo, "/")
        repo_name == parts[2]
        which == <<WhichCmd("git")>>
        target == InstallDir(repo_name)
        dir == target.dir
        made == IF target.mkdir THEN fs \cup {HomeApps, AppsDirPath} ELSE fs
        pull == Cmd(<<"git", "pull">>, <<>>, dir, x.git_rc)
        clone == Cmd(<<"git", "clone">>, repo, dir, x.git_rc)
    IN  IF Len(parts) # 2
        THEN Outcome(FALSE, "Invalid GitHub repo format", TRUE, <<>>, fs, NoPath)
        ELSE IF ~command_exists("git")
        THEN Outcome(FALSE, "Git is not installed", TRUE, which, fs, NoPath)
        ELSE IF dir \in made
        THEN IF x.git_rc # 0
             THEN Outcome(FALSE, "Git pull failed", TRUE, which \o <<pull>>, made, dir)
             ELSE Bootstrap(repo_name, dir, CheckedOut(dir, made, x), which \o <<pull>>, x)
        ELSE IF x.git_rc # 0
             THEN Outcome(FALSE, "Git clone failed", TRUE, which \o <<clone>>,
                          IF x.partial THEN made \cup {dir} ELSE made, dir)
             ELSE Bootstrap(repo_name, dir, CheckedOut(dir, made, x), which \o <<clone>>, x)

(***************************************************************************)
(* Backend Dispatcher: install_package, update_package, uninstall_package  *)
(***************************************************************************)
BackendProgs == {"brew", "apt-get", "dnf", "yum", "flatpak", "winget"}

Run(argv, package, rc) == Cmd(argv, package, NoPath, rc)

\* one command run with check=True: a nonzero exit raises
\* CalledProcessError, which the operation turns into its failure value
Checked(argv, package, x, tuple, error) ==
    IF x.rc1 = 0
    THEN Outcome(TRUE, "None", tuple, <<Run(argv, package, x.rc1)>>, fs, NoPath)
    ELSE Outcome(FALSE, error, tuple, <<Run(argv, package, x.rc1)>>, fs, NoPath)

\* the brew recipe tried as formula first and as cask on failure
install_package_formula_first(package, x) ==
    IF StartsWith(package, GithubPrefix) THEN install_from_github(Drop(package, 7), x)
    ELSE IF pkg_manager = "brew"
    THEN LET formula == Run(<<"brew", "install">>, package, x.rc1)
             cask == Run(<<"brew", "install", "--cask">>, package, x.rc2)
         IN  IF x.rc1 = 0 THEN Outcome(TRUE, "None", TRUE, <<formula>>, fs, NoPath)
             ELSE IF x.rc2 = 0 THEN Outcome(TRUE, "None", TRUE, <<formula, cask>>, fs, NoPath)
             ELSE Outcome(FALSE, "Error installing", TRUE, <<formula, cask>>, fs, NoPath)
    ELSE IF pkg_manager = "apt"
    THEN Checked(<<"sudo", "apt-get", "install", "-y">>, package, x, TRUE, "Error installing")
    ELSE IF pkg_manager = "dnf"
    THEN Checked(<<"sudo", "dnf", "install", "-y">>, package, x, TRUE, "Error installing")
    ELSE IF pkg_manager = "winget"
    THEN Checked(<<"winget", "install", "-e", "--id">>, package, x, TRUE, "Error installing")
    ELSE Outcome(FALSE, "not supported", TRUE, <<>>, fs, NoPath)

\* lines 448-494
install_package(package, x) ==
    IF StartsWith(package, GithubPrefix) THEN install_from_github(Drop(package, 7), x)
    ELSE IF pkg_manager = "brew"
    THEN LET cask == Run(<<"brew", "install", "--cask">>, package, x.rc1)
             formula == Run(<<"brew", "install">>, package, x.rc2)
         IN  IF x.rc1 = 0 THEN Outcome(TRUE, "None", TRUE, <<cask>>, fs, NoPath)
             ELSE IF x.rc2 = 0 THEN Outcome(TRUE, "None", TRUE, <<cask, formula>>, fs, NoPath)
             ELSE Outcome(FALSE, "Error installing", TRUE, <<cask, formula>>, fs, NoPath)
    ELSE IF pkg_manager = "apt"
    THEN Checked(<<"sudo", "apt-get", "install", "-y">>, package, x, TRUE, "Error installing")
    ELSE IF pkg_manager = "dnf"
    THEN Checked(<<"sudo", "dnf", "install", "-y">>, package, x, TRUE, "Error installing")
    ELSE IF pkg_manager = "winget"
    THEN Checked(<<"winget", "install", "-e", "--id">>, package, x, TRUE, "Error installing")
    ELSE Outcome(FALSE, "not supported", TRUE, <<>>, fs, NoPath)

update_package(package, x) ==
    IF pkg_manager = "brew"
    THEN Outcome(TRUE, "None", FALSE,
                 <<Run(<<"brew", "upgrade", "--cask">>, package, x.rc1),
                   Run(<<"brew", "upgrade">>, package, x.rc2)>>, fs, NoPath)
    ELSE IF pkg_manager = "apt"
    THEN Checked(<<"sudo", "apt-get", "install", "--only-upgrade", "-y">>, package, x,
                 FALSE, "None")
    ELSE Outcome(FALSE, "None", FALSE, <<>>, fs, NoPath)

\* lines 705-721: the directory a repository is removed from
UninstallDir(repo_name) ==
    LET base_path == Resolve(base_dir)
        webroot_dir ==
            IF PathName(base_path) = "install" /\ PathName(PathParent(base_path)) = "desktop"
            THEN Join(PathParent(PathParent(base_path)), repo_name)
            ELSE IF PathName(base_path) = "install"
            THEN Join(PathParent(base_path), repo_name)
            ELSE NoPath
    IN  IF webroot_dir = NoPath \/ ~Exists(webroot_dir)
        THEN Join(AppsDir, repo_name)
        ELSE webroot_dir

\* shutil.rmtree(dir)
RmTree(paths, dir) == {p \in paths : ~(p.dir = dir.dir /\ p.leaf = dir.leaf)}

\* lines 699-738
uninstall_from_github(repo_name) ==
    LET dir == UninstallDir(repo_name)
    IN  IF Exists(dir)
        THEN Outcome(TRUE, "None", FALSE, <<>>,
                     RmTree(fs, dir) \ {LaunchScript(Lower(repo_name))}, dir)
        ELSE Outcome(FALSE, "None", FALSE, <<>>, fs, dir)

\* the dnf/yum recipe as the last `else`, so that it also runs when no
\* package manager was detected
uninstall_package_remove_by_default(package, x) ==
    IF StartsWith(package, GithubPrefix) /\ Len(SplitAll(Drop(package, 7), "/")) = 2
    THEN uninstall_from_github(SplitAll(Drop(package, 7), "/")[2])
    ELSE IF pkg_manager = "brew"
    THEN LET cask == Run(<<"brew", "uninstall", "--cask">>, package, x.rc1)
             formula == Run(<<"brew", "uninstall">>, package, x.rc2)
         IN  IF x.rc1 = 0 THEN Outcome(TRUE, "None", FALSE, <<cask>>, fs, NoPath)
             ELSE Outcome(x.rc2 = 0, "None", FALSE, <<cask, formula>>, fs, NoPath)
    ELSE IF pkg_manager = "apt"
    THEN Checked(<<"sudo", "apt-get", "remove", "-y">>, package, x, FALSE, "None")
    ELSE IF pkg_manager = "flatpak"
    THEN Checked(<<"flatpak", "uninstall", "-y">>, package, x, FALSE, "None")
    ELSE IF pkg_manager = "winget"
    THEN Checked(<<"winget", "uninstall">>, package, x, FALSE, "None")
    ELSE Checked(<<"sudo", pkg_manager, "remove", "-y">>, package, x, FALSE, "None")

uninstall_package(package, x) ==
    IF StartsWith(package, GithubPrefix) /\ Len(SplitAll(Drop(package, 7), "/")) = 2
    THEN uninstall_from_github(SplitAll(Drop(package, 7), "/")[2])
    ELSE IF pkg_manager = "brew"
    THEN LET cask == Run(<<"brew", "uninstall", "--cask">>, package, x.rc1)
             formula == Run(<<"brew", "uninstall">>, package, x.rc2)
         IN  IF x.rc1 = 0 THEN Outcome(TRUE, "None", FALSE, <<cask>>, fs, NoPath)
             ELSE Outcome(x.rc2 = 0, "None", FALSE, <<cask, formula>>, fs, NoPath)
    ELSE IF pkg_manager = "apt"
    THEN Checked(<<"sudo", "apt-get", "remove", "-y">>, package, x, FALSE, "None")
    ELSE IF pkg_manager \in {"dnf", "yum"}
    THEN Checked(<<"sudo", pkg_manager, "remove", "-y">>, package, x, FALSE, "None")
    ELSE IF pkg_manager = "flatpak"
    THEN Checked(<<"flatpak", "uninstall", "-y">>, package, x, FALSE, "None")
    ELSE IF pkg_manager = "winget"
    THEN Checked(<<"winget", "uninstall">>, package, x, FALSE, "None")
    ELSE Outcome(FALSE, "None", FALSE, <<>>, fs, NoPath)

\* an engine that drops its cached status after every operation
OperateInvalidating(op, package, out) ==
    /\ fs' = out.fs
    /\ last' = [op |-> op, package |-> package, success |-> out.success,
                error |-> out.error, tuple |-> out.tuple, cmds |-> out.cmds,
                dir |-> out.dir, fs_before |-> fs, cache_before |-> cache]
    /\ cache' = [has |-> FALSE, packages |-> <<>>]
    /\ cache_time' = 0
    /\ UNCHANGED <<engine, passes, on_path, conf, now, hist>>

\* one call of the engine: Install, Update or Uninstall of one name, as
\* handle_install, handle_update and handle_uninstall make for each name of
\* a request
Operate(op, package, out) ==
    /\ fs' = out.fs
    /\ last' = [op |-> op, package |-> package, success |-> out.success,
                error |-> out.error, tuple |-> out.tuple, cmds |-> out.cmds,
                dir |-> out.dir, fs_before |-> fs, cache_before |-> cache]
    /\ UNCHANGED <<engine, passes, cache, cache_time, on_path, conf, now, hist>>

InstallPackage(package, x) == Operate("install", package, install_package(package, x))

UpdatePackage(package, x) == Operate("update", package, update_package(package, x))

UninstallPackage(package, x) == Operate("uninstall", package, uninstall_package(package, x))

\* the selection by installed in place of update_available
RECURSIVE UpdateAvailableInstalled(_)
UpdateAvailableInstalled(all_packages) ==
    IF all_packages = <<>> THEN <<>>
    ELSE (IF Head(all_packages).installed THEN <<Head(all_packages).name>> ELSE <<>>)
         \o UpdateAvailableInstalled(Tail(all_packages))

\* line 994: the names a status list marks as updatable
RECURSIVE UpdateAvailable(_)
UpdateAvailable(all_packages) ==
    IF all_packages = <<>> THEN <<>>
    ELSE (IF Head(all_packages).update_available THEN <<Head(all_packages).name>> ELSE <<>>)
         \o UpdateAvailable(Tail(all_packages))

\* lines 996-998: update_package on each name in turn
RECURSIVE UpdateEach(_, _)
UpdateEach(packages, x) ==
    IF packages = <<>> THEN <<>>
    ELSE LET out == update_package(Head(packages), x)
         IN  <<[package |-> Head(packages), success |-> out.success, cmds |-> out.cmds]>>
             \o UpdateEach(Tail(packages), x)

\* Update(mode, names): APIHandler.handle_update; q is the host's answer to
\* the bulk listing when mode 'all' reads the status, x its answer to the
\* update commands
HandleUpdate(mode, packages, q, x) ==
    /\ IF mode = "all"
       THEN get_all_packages_status(FALSE, q, 0)
       ELSE UNCHANGED <<cache, cache_time, now>>
    /\ LET names == IF mode = "none" THEN <<>>
                    ELSE IF mode = "all" THEN UpdateAvailable(cache'.packages)
                    ELSE packages
       IN  last' = [op |-> "handle_update", mode |-> mode, names |-> names,
                    results |-> UpdateEach(names, x), at |-> now,
                    reconciled |-> mode = "all" /\ ~CacheHit(FALSE, now),
                    cache_before |-> cache, cache_time_before |-> cache_time]
    /\ hist' = Forget(hist, now')
    /\ UNCHANGED <<engine, passes, on_path, conf, fs>>

(***************************************************************************)
(* Names, catalog lines and listings used as inputs                        *)
(***************************************************************************)
Vlc == <<"v", "l", "c">>

\* github:o/r
GithubRepo == GithubPrefix \o <<"o", "/", "r">>

\* "#github:o/r # x": a disabled GitHub entry with a description
DisabledGithubLine == <<"#">> \o GithubRepo \o <<" ", "#", " ", "x">>

File(lines) == [exists |-> TRUE, lines |-> lines]

Listing(out1, out2, fail) == [out1 |-> out1, out2 |-> out2, fail |-> fail]

(***************************************************************************)
(* SpecTime: the cache against the clock                                   *)
(***************************************************************************)
TimeCatalogs == {File(<<Vlc>>), File(<<Vlc, DisabledGithubLine>>)}

TimeListings == {Listing(<<>>, <<>>, 0), Listing(<<Vlc \o <<"\t", "1">>>>, <<>>, 0)}

\* seconds the clock advances between two calls, and seconds a pass lasts
TickSeconds == {5, 295}

PassSeconds == {0, 5, 10}

InitTime ==
    /\ Construct("linux", {"apt-get", "git"}, <<"srv", "desktop", "install">>)
    /\ conf \in TimeCatalogs
    /\ fs = {}
    /\ now = StartTime

NextTime ==
    \/ \E f \in BOOLEAN, q \in TimeListings, d \in PassSeconds : GetStatus(f, q, d)
    \/ \E q \in TimeListings, d \in PassSeconds : HandleRefresh(q, d)
    \/ \E d \in TickSeconds : Tick(d)
    \/ \E file \in TimeCatalogs : EditConf(file)

SpecTime == InitTime /\ [][NextTime]_vars

\* C1: once a pass has filled the cache at time t, GetStatus(FALSE) called at
\* a time now with now - t < 300 returns the cached list, runs no pass (reads
\* neither the catalog nor the Installed Index) and leaves the cached list
\* and the cached timestamp as they were.
C1_CachedReadWithinTTL ==
    (/\ last.op = "get_status"
     /\ ~last.force
     /\ last.cache_before.has
     /\ last.at - last.cache_time_before < cache_ttl)
    => (/\ last.ret = last.cache_before.packages
        /\ ~last.reconciled
        /\ cache = last.cache_before
        /\ cache_time = last.cache_time_before)

\* a cached read at an age between 10 and 300 seconds, served although the
\* catalog on disk has another number of entries by now
C1_Witness ==
    /\ last.op = "get_status"
    /\ ~last.force
    /\ last.cache_before.has
    /\ last.at - last.cache_time_before < cache_ttl
    /\ last.at - last.cache_time_before >= refresh_age
    /\ Len(last.ret) # Len(read_packages(conf).all_packages)

\* C2 as stated: whenever GetStatusCheap() is called less than 10 seconds
\* after the previous GetStatusCheap() call, it answers cached = true with
\* age < 10 and runs no pass.
C2_SecondCallCached ==
    (/\ last.op = "refresh"
     /\ last.prev_at # -1
     /\ last.at - last.prev_at < refresh_age)
    => (last.cached /\ last.cache_age < refresh_age /\ ~last.reconciled)

\* C2 amended: whenever GetStatusCheap() is called less than 10 seconds after
\* a GetStatusCheap() call that ran a reconciliation pass, it answers
\* cached = true with age < 10 and runs no pass.
C2_CachedAfterReconcile ==
    (/\ last.op = "refresh"
     /\ last.recon_at # -1
     /\ last.at - last.recon_at < refresh_age)
    => (last.cached /\ last.cache_age < refresh_age /\ ~last.reconciled)

\* a second call, strictly later than a reconciling one that lasted 5 seconds
C2_Witness ==
    /\ last.op = "refresh"
    /\ last.recon_at # -1
    /\ last.at - last.recon_at = 5
    /\ last.cached
    /\ last.cache_age = 5

(***************************************************************************)
(* SpecParse: the Catalog Parser on every short text                       *)
(***************************************************************************)
MaxLineLen == 4

MaxLines == 2

CatalogChars == {"#", " ", "a"}

SeqsUpTo(S, n) == UNION {[1..k -> S] : k \in 0..n}

ParseLines == SeqsUpTo(CatalogChars, MaxLineLen)

\* "a", "#a", "## a" and "a#a": the lines that may follow the first one
FollowLines == {<<"a">>, <<"#", "a">>, <<"#", "#", " ", "a">>, <<"a", "#", "a">>}

\* every first line of up to MaxLineLen characters, followed by up to
\* MaxLines - 1 of the lines above
ParseFiles == {File(<<first>> \o rest) :
                  first \in ParseLines, rest \in SeqsUpTo(FollowLines, MaxLines - 1)}

\* PackageManager.read_packages() called on the file as it is
ReadPackages ==
    /\ last.op = "idle"
    /\ last' = [op |-> "read_packages",
                packages |-> read_packages(conf).packages,
                all_packages |-> read_packages(conf).all_packages]
    /\ UNCHANGED <<engine, passes, cache, cache_time, on_path, conf, fs, now, hist>>

InitParse ==
    /\ Construct("linux", {"apt-get", "git"}, <<"srv", "desktop", "install">>)
    /\ conf \in ParseFiles
    /\ fs = {}
    /\ now = StartTime

NextParse == ReadPackages

SpecParse == InitParse /\ [][NextParse]_vars

\* the names of the entries of all_packages that are enabled, in order
RECURSIVE EnabledNames(_)
EnabledNames(entries) ==
    IF entries = <<>> THEN <<>>
    ELSE (IF Head(entries).enabled THEN <<Head(entries).name>> ELSE <<>>)
         \o EnabledNames(Tail(entries))

\* C5: for every catalog text the enabled-names list the parser returns is
\* the names of the full entry list filtered by enabled = true, in the same
\* order, so the full list is at least as long.
C5_EnabledIsFilteredFull ==
    last.op = "read_packages"
    => (/\ last.packages = EnabledNames(last.all_packages)
        /\ Len(last.all_packages) >= Len(last.packages))

\* a text with a disabled entry before an enabled one
C5_Witness ==
    /\ last.op = "read_packages"
    /\ Len(last.all_packages) = 2
    /\ Len(last.packages) = 1
    /\ ~last.all_packages[1].enabled

(***************************************************************************)
(* SpecStatus: reconciliation on every backend, catalog and listing        *)
(***************************************************************************)
\* github:b, which does not split into owner/repo
GithubBad == GithubPrefix \o <<"b">>

\* "#vlc # x"
DisabledVlcLine == <<"#">> \o Vlc \o <<" ", "#", " ", "x">>

StatusLines == {DisabledVlcLine, GithubRepo, GithubBad}

MaxCatalog == 2

StatusCatalogs == {File(lines) : lines \in SeqsUpTo(StatusLines, MaxCatalog)}
                  \cup {[exists |-> FALSE, lines |-> <<>>]}

TabLine(name) == name \o <<"\t", "1">>

ColLine(name) == name \o <<" ", "1">>

HeaderLine == <<"N">>

\* the listings a backend may print: tab-separated or in columns, with or
\* without header lines, and the point where the listing fails
StatusListings ==
    {Listing(<<>>, <<>>, 0),
     Listing(<<TabLine(Vlc)>>, <<>>, 0),
     Listing(<<ColLine(Vlc)>>, <<>>, 0),
     Listing(<<ColLine(GithubBad)>>, <<ColLine(Vlc)>>, 0),
     Listing(<<HeaderLine, TabLine(Vlc)>>, <<>>, 0),
     Listing(<<HeaderLine, HeaderLine, ColLine(Vlc)>>, <<>>, 0),
     Listing(<<Vlc \o <<"\t">>>>, <<>>, 0),
     Listing(<<TabLine(Vlc)>>, <<>>, 1),
     Listing(<<ColLine(Vlc)>>, <<TabLine(Vlc)>>, 2),
     Listing(<<ColLine(GithubBad)>>, <<ColLine(Vlc)>>, 2)}

\* hosts: an OS family and the commands found on its PATH
StatusHosts == {<<"macos", {"brew", "git"}>>, <<"linux", {"apt-get", "dnf", "git"}>>,
                <<"linux", {"dnf", "yum"}>>, <<"linux", {"yum", "flatpak"}>>,
                <<"linux", {"flatpak", "git"}>>, <<"windows", {"winget", "git"}>>,
                <<"unknown", {"brew", "git"}>>}

BaseDirs == {<<"srv", "desktop", "install">>, <<"srv", "install">>, <<"tmp", "x">>,
             <<"srv", "x", "..", "install">>}

RepoR == <<"r">>

StatusPaths == {Join(<<"srv">>, RepoR), Join(AppsDir, RepoR)}

InitStatus ==
    /\ \E h \in StatusHosts, dir \in BaseDirs : Construct(h[1], h[2], dir)
    /\ conf \in StatusCatalogs
    /\ fs = {}
    /\ now = StartTime

NextStatus ==
    \/ \E f \in BOOLEAN, q \in StatusListings : GetStatus(f, q, 0)
    \/ Tick(cache_ttl)
    \/ \E p \in StatusPaths : TouchPath(p)

SpecStatus == InitStatus /\ [][NextStatus]_vars

\* the status lists a call has handed out
Returned == IF last.op = "get_status" THEN last.ret ELSE <<>>

NoUpdate(status) == status.update_available = FALSE /\ status.new_version = None

\* C3: every PackageStatus that GetStatus returns or stores in the cache,
\* GitHub or backend-managed, on every backend and for every listing, has
\* update_available = false and no new_version.
C3_NeverUpdateAvailable ==
    /\ \A i \in 1..Len(cache.packages) : NoUpdate(cache.packages[i])
    /\ \A i \in 1..Len(Returned) : NoUpdate(Returned[i])

\* the cache holds an installed backend entry and an installed GitHub entry
C3_Witness ==
    /\ cache.has
    /\ Len(cache.packages) = 2
    /\ cache.packages[1].name = Vlc /\ cache.packages[1].installed
    /\ cache.packages[2].name = GithubRepo /\ cache.packages[2].installed
    /\ Returned = cache.packages

\* C4: a reconciliation pass returns exactly one PackageStatus per catalog
\* entry, in catalog order, with the entry's name, description and enabled;
\* repeated names and github: names that do not split into owner/repo
\* included.
C4_OneStatusPerEntry ==
    (last.op = "get_status" /\ last.reconciled)
    => LET entries == read_packages(conf).all_packages
       IN  /\ Len(Returned) = Len(entries)
           /\ \A i \in 1..Len(entries) :
                 /\ Returned[i].name = entries[i].name
                 /\ Returned[i].description = entries[i].description
                 /\ Returned[i].enabled = entries[i].enabled

\* a pass over a catalog that names github:b twice
C4_Witness ==
    /\ last.op = "get_status"
    /\ last.reconciled
    /\ Len(last.ret) = 2
    /\ last.ret[1].name = GithubBad
    /\ last.ret[2].name = GithubBad

(***************************************************************************)
(* SpecOps: Install, Update and Uninstall on every backend                 *)
(***************************************************************************)
\* github:p/r, the repository r of another owner
GithubRepoP == GithubPrefix \o <<"p", "/", "r">>

\* github:o/SwarmUI
GithubSwarm == GithubPrefix \o <<"o", "/">> \o SwarmUI

\* github:o/ : owner o and an empty repository name; the rest still splits
\* on "/" into two parts
GithubNoName == GithubPrefix \o <<"o", "/">>

\* github:a/b/c
GithubThree == GithubPrefix \o <<"a", "/", "b", "/", "c">>

OpsPackages == {Vlc, GithubRepo, GithubRepoP, GithubBad, GithubThree, GithubSwarm,
                GithubNoName}

\* Uninstall of github:o/ resolves to the webroot, the directory the program
\* itself runs from; the model does not follow the program past that
UninstallPackages == OpsPackages \ {GithubNoName}

\* base_dir is the directory of the running program (line 1119), so the
\* webroot above it exists
HostDirs ==
    LET base_path == Resolve(base_dir)
    IN  IF PathName(base_path) = "install" /\ PathName(PathParent(base_path)) = "desktop"
        THEN {Join(PathParent(PathParent(base_path)), <<>>)}
        ELSE IF PathName(base_path) = "install"
        THEN {Join(PathParent(base_path), <<>>)}
        ELSE {}

OpsHosts == {<<"macos", {"brew", "git"}>>, <<"linux", {"apt-get", "git"}>>,
             <<"linux", {"dnf"}>>, <<"linux", {"yum", "git"}>>,
             <<"linux", {"flatpak"}>>, <<"windows", {"winget", "git"}>>,
             <<"unknown", {"brew", "git"}>>, <<"linux", {}>>}

OpsBaseDirs == BaseDirs \cup {<<"desktop", "install">>}

OpsPaths == {Join(<<"srv">>, RepoR), Join(AppsDir, RepoR)}

\* the answers of the host: the exit codes of the package-manager commands
\* when git is not run, and the ways a clone or pull can end otherwise
BackendAnswers == {Answer(rc1, rc2, 0, FALSE, TRUE, 0) : rc1 \in {0, 1}, rc2 \in {0, 1}}

GitAnswers ==
    {Answer(0, 0, 1, partial, FALSE, 0) : partial \in BOOLEAN}
    \cup {Answer(0, 0, 0, FALSE, FALSE, 0)}
    \cup {Answer(0, 0, 0, FALSE, TRUE, rc) : rc \in {0, 1}}

\* install_package runs git for a github: name and the package manager for
\* any other; update_package and uninstall_package never run git
InstallAnswers(package) ==
    IF StartsWith(package, GithubPrefix) THEN GitAnswers ELSE BackendAnswers

InitOps ==
    /\ \E h \in OpsHosts, dir \in OpsBaseDirs : Construct(h[1], h[2], dir)
    /\ conf = File(<<Vlc>>)
    /\ fs = HostDirs
    /\ now = StartTime

NextOps ==
    \/ \E package \in OpsPackages : \E x \in InstallAnswers(package) :
           InstallPackage(package, x)
    \/ \E package \in OpsPackages, x \in BackendAnswers : UpdatePackage(package, x)
    \/ \E package \in UninstallPackages, x \in BackendAnswers : UninstallPackage(package, x)
    \/ \E p \in OpsPaths : TouchPath(p)

SpecOps == InitOps /\ [][NextOps]_vars

Mutating == {"install", "update", "uninstall"}

\* the name is github:owner/repo: the rest splits on "/" into two parts
WellFormedGithub(package) ==
    StartsWith(package, GithubPrefix) /\ Len(SplitAll(Drop(package, 7), "/")) = 2

UsesBackend(cmd) == \E i \in 1..Len(cmd.argv) : cmd.argv[i] \in BackendProgs

\* C6 as stated: with backend none, Install, Update and Uninstall of every
\* name, github: names included, fail, run no external command and leave
\* the filesystem as it was.
C6_NoneFailsWithoutEffect ==
    (last.op \in Mutating /\ pkg_manager = "none")
    => (~last.success /\ last.cmds = <<>> /\ fs = last.fs_before)

\* C6 amended: with backend none, Update of every name, and Install and
\* Uninstall of every name that is not github:owner/repo, fail, run no
\* external command and leave the filesystem as it was.
C6_NoneFailsOutsideGithub ==
    (/\ last.op \in Mutating
     /\ pkg_manager = "none"
     /\ (last.op = "update" \/ ~WellFormedGithub(last.package)))
    => (~last.success /\ last.cmds = <<>> /\ fs = last.fs_before)

\* Uninstall of github:b with backend none, while a repository directory
\* exists
C6_Witness ==
    /\ last.op = "uninstall"
    /\ pkg_manager = "none"
    /\ last.package = GithubBad
    /\ fs \cap OpsPaths # {}
    /\ ~last.success

\* C7: Install, Update and Uninstall of a name that begins with github:
\* never run a backend package-manager command (brew, apt-get, dnf, yum,
\* flatpak, winget), whether or not the rest is a well-formed owner/repo.
C7_GithubNeverReachesBackend ==
    (last.op \in Mutating /\ StartsWith(last.package, GithubPrefix))
    => \A i \in 1..Len(last.cmds) : ~UsesBackend(last.cmds[i])

\* C8: Install, Update or Uninstall of a non-GitHub package that runs one
\* or more commands, all of which exit nonzero, returns success = false.
C8_AllCommandsFailMeansFailure ==
    (/\ last.op \in Mutating
     /\ ~StartsWith(last.package, GithubPrefix)
     /\ last.cmds # <<>>
     /\ \A i \in 1..Len(last.cmds) : last.cmds[i].rc # 0)
    => ~last.success

\* the (action, backend) pairs without a command recipe
NoRecipe(op, pm) ==
    \/ op = "install" /\ pm \in {"yum", "flatpak"}
    \/ op = "update" /\ pm \in {"dnf", "yum", "flatpak", "winget"}

\* C9: an operation on a non-GitHub package for an (action, backend) pair
\* without a recipe runs no external command and returns success = false
\* together with a 'not supported' error message.
C9_UnsupportedPairReportsNotSupported ==
    (/\ last.op \in Mutating
     /\ ~StartsWith(last.package, GithubPrefix)
     /\ NoRecipe(last.op, pkg_manager))
    => (/\ last.cmds = <<>>
        /\ ~last.success
        /\ last.tuple
        /\ last.error = "not supported")

\* the directory C10 names for a repository, from the resolved base
\* directory and the repository name alone
C10_Dir(repo_name) ==
    LET b == Resolve(base_dir)
        n == Len(b)
    IN  IF n >= 2 /\ b[n] = "install" /\ b[n - 1] = "desktop"
        THEN [dir |-> SubSeq(b, 1, n - 2), leaf |-> repo_name, sub |-> ""]
        ELSE IF n >= 1 /\ b[n] = "install"
        THEN [dir |-> SubSeq(b, 1, n - 1), leaf |-> repo_name, sub |-> ""]
        ELSE [dir |-> <<"~", "Applications", "GitHub">>, leaf |-> repo_name, sub |-> ""]

\* C10: the directory Install resolves for a well-formed owner/repo is two
\* levels above baseDir when baseDir ends in desktop/install, else one level
\* above when it ends in install, else ~/Applications/GitHub, each followed
\* by the repository name; git runs there whoever the owner is and
\* whichever directories exist.
C10_InstallDirFromBaseDirAndRepo ==
    (/\ last.op = "install"
     /\ WellFormedGithub(last.package)
     /\ command_exists("git"))
    => LET repo_name == SplitAll(Drop(last.package, 7), "/")[2]
       IN  /\ last.dir = C10_Dir(repo_name)
           /\ \E i \in 1..Len(last.cmds) :
                 last.cmds[i].argv[1] = "git" /\ last.cmds[i].at = C10_Dir(repo_name)

\* github:p/r installed from a desktop/install layout while r exists under
\* ~/Applications/GitHub only: the clone goes to the webroot
C10_Witness ==
    /\ last.op = "install"
    /\ last.package = GithubRepoP
    /\ command_exists("git")
    /\ PathName(Resolve(base_dir)) = "install"
    /\ Join(AppsDir, RepoR) \in last.fs_before
    /\ Join(<<"srv">>, RepoR) \notin last.fs_before
    /\ last.dir = Join(<<"srv">>, RepoR)
    /\ last.success

\* the version-control commands among the commands an operation ran
IsGit(cmd) == cmd.argv[1] = "git"

GitCmds == SelectSeq(last.cmds, IsGit)

\* the repository name of the github:owner/repo the last operation was for
LastRepoName == SplitAll(Drop(last.package, 7), "/")[2]

GithubInstallRan ==
    /\ last.op = "install"
    /\ WellFormedGithub(last.package)
    /\ command_exists("git")

\* what C11 says of the one version-control command, given whether
\* installDir counts as existing
C11_OneGitCommand(existed) ==
    /\ Len(GitCmds) = 1
    /\ GitCmds[1].at = last.dir
    /\ GitCmds[1].argv = IF existed THEN <<"git", "pull">> ELSE <<"git", "clone">>
    /\ (LastRepoName # SwarmUI) => (last.success <=> GitCmds[1].rc = 0)

\* C11 as stated: a GitHub Install with git present and a well-formed
\* reference runs exactly one version-control command, a pull in installDir
\* when installDir existed at the time of the call and a clone into it when
\* it did not; for a repository other than SwarmUI the install succeeds
\* exactly when that command exits zero.
C11_PullIfPresentAtCall ==
    GithubInstallRan => C11_OneGitCommand(last.dir \in last.fs_before)

\* C11 amended: the same, with the existence of installDir taken when the
\* installer tests it, which in the fallback layout is after it has created
\* ~/Applications/GitHub.
C11_PullIfPresentWhenTested ==
    GithubInstallRan
    => C11_OneGitCommand(last.dir \in (last.fs_before
                            \cup IF InstallDir(LastRepoName).mkdir
                                 THEN {HomeApps, AppsDirPath} ELSE {}))

\* github:o/r installed twice: the second install pulls in the directory
\* the first one cloned, and the pull fails
C11_Witness ==
    /\ GithubInstallRan
    /\ last.package = GithubRepo
    /\ last.dir \in last.fs_before
    /\ GitCmds = <<Cmd(<<"git", "pull">>, <<>>, last.dir, 1)>>
    /\ ~last.success
    /\ last.error = "Git pull failed"

\* C12: in the list a reconciliation pass returns, every entry whose name is
\* github:owner/repo is reported installed, with version "git", exactly when
\* the directory Install resolves for the repository exists, and otherwise
\* not installed and without a version.
C12_InstalledIffInstallDirExists ==
    (last.op = "get_status" /\ last.reconciled)
    => \A i \in 1..Len(last.ret) :
          WellFormedGithub(last.ret[i].name)
          => LET repo_name == SplitAll(Drop(last.ret[i].name, 7), "/")[2]
                 there == Exists(InstallDir(repo_name).dir)
             IN  /\ last.ret[i].installed = there
                 /\ last.ret[i].version = IF there THEN Git ELSE None

\* C13: Uninstall of github:owner/repo acts on the directory Install
\* resolves for the repository: when that directory exists it is removed
\* together with the launcher script and the call returns true; when it does
\* not exist the call returns false and nothing is removed.
C13_UninstallActsOnInstallDir ==
    (last.op = "uninstall" /\ WellFormedGithub(last.package))
    => LET d == InstallDir(LastRepoName).dir
       IN  IF d \in last.fs_before
           THEN /\ last.success
                /\ last.dir = d
                /\ d \notin fs
                /\ LaunchScript(Lower(LastRepoName)) \notin fs
           ELSE /\ ~last.success
                /\ fs = last.fs_before

(***************************************************************************)
(* SpecCache: Install, Update and Uninstall between status reads           *)
(***************************************************************************)
CacheHosts == OpsHosts

CacheCatalog == File(<<Vlc, GithubRepo>>)

CacheCatalogs == {CacheCatalog, File(<<GithubRepo, DisabledVlcLine>>), File(<<>>)}

CacheListings == {Listing(<<>>, <<>>, 0), Listing(<<ColLine(Vlc)>>, <<>>, 0)}

\* the answers that play no part in a mode: no listing is asked for in mode
\* none or list, no command is run in mode none
NoListing == Listing(<<>>, <<>>, 0)

NoAnswer == Answer(0, 0, 0, FALSE, FALSE, 0)

CachePackages == {Vlc, GithubRepo}

UpdateLists == {<<>>, <<Vlc>>, <<Vlc, GithubRepo>>}

InitCache ==
    /\ \E h \in CacheHosts : Construct(h[1], h[2], <<"srv", "desktop", "install">>)
    /\ conf \in CacheCatalogs
    /\ fs = HostDirs
    /\ now = StartTime

NextCache ==
    \/ \E f \in BOOLEAN, q \in CacheListings : GetStatus(f, q, 0)
    \/ \E package \in CachePackages : \E x \in InstallAnswers(package) :
           InstallPackage(package, x)
    \/ \E package \in CachePackages, x \in BackendAnswers : UninstallPackage(package, x)
    \/ \E packages \in UpdateLists : HandleUpdate("none", packages, NoListing, NoAnswer)
    \/ \E packages \in UpdateLists, q \in CacheListings, x \in BackendAnswers :
           HandleUpdate("all", packages, q, x)
    \/ \E packages \in UpdateLists, x \in BackendAnswers :
           HandleUpdate("list", packages, NoListing, x)
    \/ Tick(cache_ttl)

SpecCache == InitCache /\ [][NextCache]_vars

\* the step is the read GetStatus(false) made within the TTL of a filled cache
CachedRead ==
    /\ last'.op = "get_status"
    /\ ~last'.force
    /\ cache.has
    /\ now - cache_time < cache_ttl

\* the consequence C14 draws: a GetStatus(false) within the TTL that follows
\* a successful install or uninstall returns the list cached before it
C14_ReadAfterOperation ==
    (last.op \in {"install", "uninstall"} /\ last.success /\ CachedRead)
    => last'.ret = last.cache_before.packages

\* C14 as stated: no Install, no Update in mode none, all or list, and no
\* Uninstall changes the cached list or the cache timestamp; so a
\* GetStatus(false) within the TTL after a successful install or uninstall
\* returns the list as it was before the operation.
C14_OperationsLeaveCache ==
    [][/\ (last'.op \in Mutating \cup {"handle_update"})
          => UNCHANGED <<cache, cache_time>>
       /\ C14_ReadAfterOperation]_vars

\* C14 amended: Install, Uninstall and Update in mode none or list leave the
\* cached list and timestamp unchanged; Update in mode all leaves them
\* unchanged when the cache is filled and younger than the TTL, and
\* otherwise replaces both by a reconciliation pass; a GetStatus(false)
\* within the TTL after a successful install or uninstall returns the list
\* as it was before the operation.
C14_OnlyUpdateAllRefreshes ==
    [][/\ (last'.op \in Mutating
           \/ (last'.op = "handle_update" /\ last'.mode \in {"none", "list"}))
          => UNCHANGED <<cache, cache_time>>
       /\ (last'.op = "handle_update" /\ last'.mode = "all")
          => IF CacheHit(FALSE, now)
             THEN UNCHANGED <<cache, cache_time>>
             ELSE cache'.has /\ cache_time' = now /\ last'.reconciled
       /\ C14_ReadAfterOperation]_vars

\* vlc has just been installed with success while the cache, filled before
\* and still within its TTL, lists vlc as not installed
C14_Witness ==
    /\ last.op = "install"
    /\ last.package = Vlc
    /\ last.success
    /\ cache.has
    /\ cache = last.cache_before
    /\ now - cache_time < cache_ttl
    /\ Len(cache.packages) = 2
    /\ cache.packages[1].name = Vlc
    /\ ~cache.packages[1].installed

\* the listing invocation of a pass that raised (timeout or execution
\* error): 1 the first, 2 the second, which only brew has, 0 none
IndexFailed ==
    IF pkg_manager = "brew" THEN (IF last.failed.fail \in {1, 2} THEN last.failed.fail ELSE 0)
    ELSE IF pkg_manager = "none" THEN 0
    ELSE IF last.failed.fail = 1 THEN 1 ELSE 0

DegradedPass == last.op = "get_status" /\ last.reconciled /\ IndexFailed # 0

\* the pass returned one status per catalog entry, in catalog order
OnePerEntry ==
    LET all_packages == read_packages(conf).all_packages
    IN  /\ Len(last.ret) = Len(all_packages)
        /\ \A i \in 1..Len(last.ret) : last.ret[i].name = all_packages[i].name

\* C15 as stated: when a listing invocation of the Installed Index times
\* out or fails, the pass still returns one status per catalog entry and
\* reports every entry that is not github:owner/repo as not installed.
C15_FailedIndexReportsNothingInstalled ==
    DegradedPass
    => /\ OnePerEntry
       /\ \A i \in 1..Len(last.ret) :
             ~WellFormedGithub(last.ret[i].name) => ~last.ret[i].installed

\* C15 amended: when a listing invocation times out or fails, the pass
\* still returns one status per catalog entry; an entry that is not
\* github:owner/repo is reported installed only on brew, when the cask
\* listing succeeded and named it before the formula listing failed, and
\* then with the version the cask listing gave.
C15_FailedIndexKeepsWhatWasParsed ==
    DegradedPass
    => /\ OnePerEntry
       /\ \A i \in 1..Len(last.ret) :
             ~WellFormedGithub(last.ret[i].name)
             => LET casks == ParseColumns(EmptyDict, last.failed.out1)
                    kept == /\ pkg_manager = "brew"
                            /\ IndexFailed = 2
                            /\ last.ret[i].name \in DOMAIN casks
                IN  /\ last.ret[i].installed = kept
                    /\ last.ret[i].version = IF kept THEN casks[last.ret[i].name] ELSE None

\* a pass over a catalog that holds vlc, on a backend other than brew, whose
\* listing printed vlc before it failed: vlc is reported not installed
C15_Witness ==
    /\ DegradedPass
    /\ pkg_manager \notin {"brew", "none"}
    /\ last.failed.out1 # <<>>
    /\ Len(last.ret) = 2
    /\ last.ret[1].name = Vlc
    /\ ~last.ret[1].installed

(***************************************************************************)
(* SpecPasses: reconciliation passes of callers that overlap               *)
(***************************************************************************)
InitPasses ==
    /\ Construct("linux", {"apt-get", "git"}, <<"srv", "desktop", "install">>)
    /\ conf = File(<<Vlc>>)
    /\ fs = HostDirs
    /\ now = StartTime

NextPasses ==
    \/ \E c \in Callers, f \in BOOLEAN, q \in TimeListings : PassBegin(c, f, q)
    \/ \E c \in Callers, f \in BOOLEAN : PassServed(c, f)
    \/ \E c \in Callers : PassStoreList(c)
    \/ \E c \in Callers : PassStoreTime(c)
    \/ Tick(cache_ttl)

SpecPasses == InitPasses /\ [][NextPasses]_vars

\* C16: in every reachable state, the states in which passes of several
\* callers overlap included, the cached list and the cache timestamp were
\* written by the same reconciliation pass.
C16_ListAndTimeFromSamePass == passes.list_by = passes.time_by

\* Install of a well-formed github: reference to SwarmUI, with git present
SwarmInstall == GithubInstallRan /\ LastRepoName = SwarmUI

\* the run of the bootstrap script of this OS family among the commands
IsBootstrap(cmd) == BootstrapScript # "" /\ cmd.argv = <<BootstrapScript>>

BootstrapRuns == SelectSeq(last.cmds, IsBootstrap)

\* C17: on every OS family the detector returns (macos, linux, windows,
\* unknown), Install of SwarmUI succeeds only if the clone or pull exited
\* zero and the bootstrap script of the OS family was found under
\* installDir and run there with exit code zero; when the script is missing
\* or exits nonzero the install returns (false, message).
C17_SwarmSuccessNeedsBootstrap ==
    SwarmInstall
    => /\ last.success
          => /\ Len(GitCmds) = 1 /\ GitCmds[1].rc = 0
             /\ Below(last.dir, BootstrapScript) \in fs
             /\ Len(BootstrapRuns) = 1
             /\ BootstrapRuns[1].at = last.dir
             /\ BootstrapRuns[1].rc = 0
       /\ (/\ Len(GitCmds) = 1 /\ GitCmds[1].rc = 0
           /\ \/ Below(last.dir, BootstrapScript) \notin fs
              \/ \E i \in 1..Len(BootstrapRuns) : BootstrapRuns[i].rc # 0)
          => (~last.success /\ last.tuple /\ last.error # "None")

\* C18: Install of a github: name whose reference does not split on "/"
\* into exactly two parts, or made while git is absent, returns
\* (false, message), runs neither clone nor pull nor a bootstrap script and
\* leaves every directory and launcher script as it was.
C18_RejectedInstallHasNoEffect ==
    (/\ last.op = "install"
     /\ StartsWith(last.package, GithubPrefix)
     /\ (~WellFormedGithub(last.package) \/ ~command_exists("git")))
    => /\ ~last.success
       /\ last.tuple
       /\ last.error \in {"Invalid GitHub repo format", "Git is not installed"}
       /\ \A i \in 1..Len(last.cmds) : last.cmds[i].argv[1] \in {"which", "where"}
       /\ fs = last.fs_before

\* github:o/r asked for outside a webroot on a host without git, before
\* ~/Applications/GitHub exists
C18_Witness ==
    /\ last.op = "install"
    /\ last.package = GithubRepo
    /\ ~command_exists("git")
    /\ InstallDir(RepoR).mkdir
    /\ AppsDirPath \notin fs
    /\ last.error = "Git is not installed"

\* C19: on brew, Install and Uninstall of a name without the github:
\* prefix run the cask command first, run the formula command exactly when
\* the cask command exited nonzero, run nothing else, and succeed exactly
\* when the last command run exited zero.
C19_BrewCaskThenFormula ==
    (/\ last.op \in {"install", "uninstall"}
     /\ pkg_manager = "brew"
     /\ ~StartsWith(last.package, GithubPrefix))
    => LET n == Len(last.cmds)
       IN  /\ n \in {1, 2}
           /\ last.cmds[1] = Run(<<"brew", last.op, "--cask">>, last.package,
                                 last.cmds[1].rc)
           /\ (n = 2) <=> (last.cmds[1].rc # 0)
           /\ (n = 2) => last.cmds[2] = Run(<<"brew", last.op>>, last.package,
                                            last.cmds[2].rc)
           /\ last.success <=> (last.cmds[n].rc = 0)

\* vlc installed on brew: the cask command failed and the formula command
\* that followed exited zero
C19_Witness ==
    /\ last.op = "install"
    /\ pkg_manager = "brew"
    /\ last.package = Vlc
    /\ Len(last.cmds) = 2
    /\ last.cmds[1].rc # 0
    /\ last.cmds[2].rc = 0
    /\ last.success

\* the entries C20 gives a line: none for a line that is blank or starts
\* with ## once trimmed; otherwise the text, less a single leading #, is cut
\* at its first # into a trimmed name and a trimmed description, and an
\* empty name gives no entry
C20_Entries(raw) ==
    LET trimmed == Strip(raw)
        disabled == trimmed # <<>> /\ trimmed[1] = "#"
        text == IF disabled THEN Tail(trimmed) ELSE trimmed
        i == IndexOf(text, "#")
        name == Strip(IF i = 0 THEN text ELSE SubSeq(text, 1, i - 1))
        description == IF i = 0 THEN <<>> ELSE Strip(SubSeq(text, i + 1, Len(text)))
    IN  IF trimmed = <<>> THEN <<>>
        ELSE IF Len(trimmed) >= 2 /\ trimmed[1] = "#" /\ trimmed[2] = "#" THEN <<>>
        ELSE IF name = <<>> THEN <<>>
        ELSE <<[name |-> name, enabled |-> ~disabled, description |-> description]>>

RECURSIVE C20_AllEntries(_)
C20_AllEntries(lines) ==
    IF lines = <<>> THEN <<>> ELSE C20_Entries(Head(lines)) \o C20_AllEntries(Tail(lines))

\* C20: the parser gives each line, once trimmed, no entry when it is blank
\* or starts with ##, a disabled entry read from the text after the # when
\* it starts with a single #, and an enabled entry otherwise; the text is
\* split at its first # into trimmed name and trimmed description, a line
\* with an empty name gives no entry, and so every entry has a non-empty
\* name without #.
C20_LinesClassified ==
    last.op = "read_packages"
    => /\ last.all_packages = C20_AllEntries(conf.lines)
       /\ \A i \in 1..Len(last.all_packages) :
             /\ last.all_packages[i].name # <<>>
             /\ \A j \in 1..Len(last.all_packages[i].name) :
                   last.all_packages[i].name[j] # "#"

\* "#a#a" read as the disabled entry a with description a
C20_Witness ==
    /\ last.op = "read_packages"
    /\ conf.lines[1] = <<"#", "a", "#", "a">>
    /\ Len(last.all_packages) >= 1
    /\ last.all_packages[1] = [name |-> <<"a">>, enabled |-> FALSE,
                                description |-> <<"a">>]

\* C21: in every status a reconciliation pass produced, the entry is
\* installed exactly when it carries a version (one that is not None): "git"
\* for a github:owner/repo entry and a version some listing gives the name
\* for any other entry.
C21_InstalledIffVersion ==
    \A i \in 1..Len(Returned) :
       LET status == Returned[i]
       IN  /\ status.installed <=> (status.version # None)
           /\ (status.installed /\ WellFormedGithub(status.name)) => status.version = Git
           /\ (status.installed /\ ~WellFormedGithub(status.name))
              => \E q \in StatusListings :
                    LET installed_packages == get_all_installed_packages(pkg_manager, q)
                    IN  /\ status.name \in DOMAIN installed_packages
                        /\ status.version = installed_packages[status.name]

\* a pass whose listing gave vlc with an empty version, over a catalog that
\* holds vlc and a GitHub repository that is not installed
C21_Witness ==
    /\ last.op = "get_status"
    /\ last.reconciled
    /\ Len(last.ret) = 2
    /\ last.ret[1].name = Vlc
    /\ last.ret[1].installed
    /\ last.ret[1].version = <<>>
    /\ last.ret[2].name = GithubRepo
    /\ ~last.ret[2].installed
    /\ last.ret[2].version = None

\* C22: Update in mode all takes its targets from the list GetStatus(false)
\* returns, by update_available; as no status has update_available set, it
\* runs no update command and returns an empty result map, whatever the
\* catalog, the backend and the installed packages.
C22_UpdateAllUpdatesNothing ==
    (last.op = "handle_update" /\ last.mode = "all")
    => /\ last.names = UpdateAvailable(cache.packages)
       /\ last.names = <<>>
       /\ last.results = <<>>

\* Update in mode all that ran a pass which found vlc installed
C22_Witness ==
    /\ last.op = "handle_update"
    /\ last.mode = "all"
    /\ last.reconciled
    /\ Len(cache.packages) = 2
    /\ cache.packages[1].name = Vlc
    /\ cache.packages[1].installed
    /\ last.results = <<>>

(***************************************************************************)
(* SpecRemoval: Uninstall of a GitHub repository between forced passes     *)
(***************************************************************************)
RemovalPackages == {GithubRepo, Vlc}

InitRemoval ==
    /\ \E h \in OpsHosts, dir \in OpsBaseDirs : Construct(h[1], h[2], dir)
    /\ conf = CacheCatalog
    /\ fs = HostDirs
    /\ now = StartTime

NextRemoval ==
    \/ \E q \in CacheListings : GetStatus(TRUE, q, 0)
    \/ \E package \in RemovalPackages : \E x \in InstallAnswers(package) :
           InstallPackage(package, x)
    \/ \E package \in RemovalPackages, x \in BackendAnswers : UninstallPackage(package, x)
    \/ \E p \in OpsPaths : TouchPath(p)

SpecRemoval == InitRemoval /\ [][NextRemoval]_vars

\* C23: right after Uninstall of a well-formed github:owner/repo returned
\* true, a forced pass reports that entry as not installed, for every
\* filesystem state and every layout of the base directory.
C23_UninstalledThenReportedAbsent ==
    [][(/\ last.op = "uninstall"
        /\ last.success
        /\ WellFormedGithub(last.package)
        /\ last'.op = "get_status"
        /\ last'.force)
       => \A i \in 1..Len(last'.ret) :
             last'.ret[i].name = last.package => ~last'.ret[i].installed]_vars

\* C24: whatever the interleaving of the passes of several callers, and with
\* a clock that never goes back, no step lowers the cached timestamp: a pass
\* that stores later never stores an earlier time than the one in the cache.
C24_CacheTimeNeverDecreases == [][cache_time' >= cache_time]_vars

=============================================================================
